---- MODULE Spec2Model ----
(***************************************************************************)
(* Connection lifecycle manager of the WhatsApp bot (src/index.ts, the     *)
(* revision that starts at line 49): the attempt/retry/backoff loop        *)
(* initializeWithRetry, the 'ready' and 'disconnected' handlers, the       *)
(* shutdown coordinator gracefulShutdown and the readiness check of the    *)
(* HTTP send endpoints.                                                    *)
(*                                                                         *)
(* The program is single-threaded JavaScript: every action below is one    *)
(* synchronous run of code between two suspension points (await), so the   *)
(* interleavings of the model are exactly the orders in which the event    *)
(* loop may run the pending continuations, timers, session events,         *)
(* signals and HTTP requests.                                              *)
(*                                                                         *)
(* The session object (whatsapp-web.js Client) is external: a handle may   *)
(* report 'ready' once and 'disconnected' any number of times while        *)
(* destroy has not been invoked on it; initialize() and destroy() settle   *)
(* either way, or never.  Handles have no identity in the model: the state *)
(* holds the handle in the slot and the bag of the handles that left the   *)
(* slot without destroy (nothing refers to them, their handlers stay       *)
(* wired); a handle that left the slot after destroy is dropped.           *)
(*                                                                         *)
(* MAX_RETRIES and BASE_RETRY_DELAY are read from the environment; the     *)
(* model takes a small MAX_RETRIES and the default BASE_RETRY_DELAY.       *)
(***************************************************************************)
EXTENDS Integers, Naturals, Sequences, FiniteSets, Bags, TLC

\* ------------------------------------------------------------------ bounds
MaxRetries == 2          \* MAX_RETRIES (environment, default 5)
MaxHandles == 2          \* handles that are live at the same time
MaxTasks == 2            \* pending invocations of initializeWithRetry
MaxPieces == 3           \* pieces a target is made of
MaxEntries == 3          \* entries of a directory tree
MaxParts == 3            \* parts a message text is made of

\* --------------------------------------------------------------- constants
BaseDelay == 5000        \* BASE_RETRY_DELAY (environment, default 5000)

\* a session object: phase "new" (created, handlers wired, initialize called),
\* "ready" (reported 'ready'), "disc" (reported 'disconnected'); destroyCalls
\* counts the calls of destroy() on it
Handle(phase, destroyCalls) == [phase |-> phase, destroyCalls |-> destroyCalls]
NoHandle == Handle("null", 0)      \* client = null

Signals == {"SIGINT", "SIGTERM", "uncaughtException"}
\* what called gracefulShutdown: a termination signal or the handler of
\* uncaught exceptions
Origin(signal) ==
    IF signal \in {"SIGINT", "SIGTERM"} THEN "signal" ELSE "uncaughtException"
Endpoints == {"/send", "/send-group", "/send-pdf"}

VARIABLES
    client,                  \* the handle slot: NoHandle or a handle
    orphans,                 \* bag of the live handles that left the slot
    isShuttingDown,          \* shutdown flag
    isReady,                 \* readiness flag
    initializationAttempt,   \* attempt counter
    tasks,                   \* bag of the pending initializeWithRetry invocations
    sd,                      \* the gracefulShutdown call that set the flag
    req,                     \* the HTTP request being handled
    exited,                  \* process.exit has been called
    exitCode,                \* its argument
    hist,                    \* history: counters the claims speak about
    inbox,                   \* the run of the 'message' handler that is pending
    last,                    \* history: what the step taken last emitted
    arg,                     \* the argument of the function being evaluated
    ret                      \* its result, or NoValue before it returns

vars == <<client, orphans, isShuttingDown, isReady, initializationAttempt,
          tasks, sd, req, inbox, exited, exitCode, hist, last, arg, ret>>

\* ------------------------------------------------------------ pure helpers

\* mutants of the loop guard: off by one; shutdown flag not consulted
LoopGuardOffByOne(attempt, shutting) == attempt <= MaxRetries /\ ~shutting
LoopGuardIgnoresShutdown(attempt, shutting) == attempt < MaxRetries

\* while (initializationAttempt < MAX_RETRIES && !isShuttingDown)
LoopGuard(attempt, shutting) == attempt < MaxRetries /\ ~shutting

\* mutant of the retry decision: one retry too many
RetryDecisionOffByOne(attempt, shutting) == attempt <= MaxRetries /\ ~shutting

\* if (initializationAttempt < MAX_RETRIES && !isShuttingDown) in the catch
RetryDecision(attempt, shutting) == attempt < MaxRetries /\ ~shutting

\* if (!isShuttingDown && initializationAttempt < MAX_RETRIES) in 'disconnected'
ReconnectGuard(attempt, shutting) == ~shutting /\ attempt < MaxRetries

\* mutant of the re-entrancy guard: the guard is missing
ShutdownNeverInProgress(shutting) == FALSE

\* if (isShuttingDown) return;  at the top of gracefulShutdown
ShutdownAlreadyInProgress(shutting) == shutting

\* mutant of the readiness check: only the handle slot is looked at
NotReadySlotOnly(ready, c) == c = NoHandle

\* if (!isReady || !client) in the three send endpoints
NotReady(ready, c) == ~ready \/ c = NoHandle

\* GET /health: whatsapp: isReady ? 'connected' : 'disconnected'
Health(ready) == IF ready THEN "connected" ELSE "disconnected"

\* 2^n for n >= 0
RECURSIVE Pow2(_)
Pow2(n) == IF n <= 0 THEN 1 ELSE 2 * Pow2(n - 1)

\* BASE_RETRY_DELAY * Math.pow(2, initializationAttempt - 1); Math.pow(2, -1)
\* is 0.5, so the delay for a counter of 0 is half the base delay
BackoffDelay(attempt) ==
    IF attempt >= 1 THEN BaseDelay * Pow2(attempt - 1) ELSE BaseDelay \div 2

\* mutant of the reset: the counter is left as it is
ReadyKeepsCounter(attempt) == attempt

\* initializationAttempt = 0 in the 'ready' handler
ReadyReset(attempt) == 0

\* mutant of the 'disconnected' handler: the flag is not cleared
ReadyOnDisconnectedStaysTrue == TRUE

\* isReady = true in the 'ready' handler
ReadyOnReady == TRUE
\* isReady = false in the 'disconnected' handler
ReadyOnDisconnected == FALSE

\* process.exit(0) at the end of gracefulShutdown, whatever the signal
ShutdownExitCode(signal) == 0

\* mutant of the shutdown race: destroy is awaited without the timer
DestroyRaceWithoutTimer == {"ok", "error"}

\* await Promise.race([client.destroy(), <5 s timer that rejects>]) in
\* gracefulShutdown: the ways the race settles
DestroyRace == {"ok", "error", "timeout"}

\* mutant of the initialize race: initialize is awaited without the timer
InitializeRaceWithoutTimer == {"reject"}

\* await Promise.race([client.initialize(), <180 s timer that rejects>]): the
\* ways the race rejects
InitializeRace == {"reject", "timeout"}

\* process.exit(1) in the catch branch of initializeWithRetry
FailureExitCode == 1

\* One pending invocation of initializeWithRetry (or of the 'disconnected'
\* handler that is about to call it):
\*   pc     where it is suspended
\*   fresh  an attempt of it is in progress and no 'ready' was handled since
\*          that attempt started
Task(pc, fresh) == [pc |-> pc, fresh |-> fresh]
StartTask == Task("start", FALSE)
ReconnectTask == Task("reconnectDelay", FALSE)

\* a handle is live from createClient until destroy is invoked on it
Live(h) == h # NoHandle /\ h.destroyCalls = 0
LiveCount == (IF Live(client) THEN 1 ELSE 0) + BagCardinality(orphans)

\* client.destroy(): one more call of destroy on the handle in the slot
Destroyed(h) == [h EXCEPT !.destroyCalls = @ + 1]

\* an orphan is kept up to what it may still emit: 'ready' once if it has not
\* reported it ("new"), 'disconnected' any number of times
Orphan(h) == Handle(IF h.phase = "new" THEN "new" ELSE "past", 0)

\* the orphans once the slot is overwritten: the handle that was in it is one
\* of them if destroy was never invoked on it
Orphaned ==
    IF Live(client) THEN orphans (+) SetToBag({Orphan(client)}) ELSE orphans

\* the handles whose handlers may run; slot tells whether it is the one in
\* the slot
Emitters ==
    {[slot |-> TRUE, h |-> h] : h \in {c \in {client} : Live(c)}}
        \cup {[slot |-> FALSE, h |-> h] : h \in BagToSet(orphans)}

\* the slot and the orphans after emitter e moved to phase p
SlotAfter(e, p) == IF e.slot THEN [client EXCEPT !.phase = p] ELSE client
OrphansAfter(e, p) ==
    IF e.slot THEN orphans
    ELSE (orphans (-) SetToBag({e.h})) (+) SetToBag({Orphan(Handle(p, 0))})

Pending == BagToSet(tasks)
Started == \A x \in Pending : x.pc # "start"

Without(x) == tasks (-) SetToBag({x})
Replace(x, y) == Without(x) (+) SetToBag({y})

\* the bag of Stale(x) for the x of bag B: no attempt in flight is fresh
Stale(x) == [x EXCEPT !.fresh = FALSE]
RECURSIVE Copies(_, _, _)
Copies(B, S, y) ==
    IF S = {} THEN 0
    ELSE LET x == CHOOSE z \in S : TRUE
         IN  (IF Stale(x) = y THEN B[x] ELSE 0) + Copies(B, S \ {x}, y)
AllStale(B) ==
    [y \in {Stale(x) : x \in DOMAIN B} |-> Copies(B, DOMAIN B, y)]

\* saturating increment of a history counter
Bump(x) == IF x <= MaxRetries THEN x + 1 ELSE x

\* what a step emits, for the outputs the properties speak about: the status
\* of an HTTP response, the return of a repeated call of gracefulShutdown, the
\* delay of a backoff sleep that starts, a call of msg.reply, the warning about
\* a destroy that failed, the report of an unhandled rejection; Quiet for every
\* other step
Emits(a, n) == [a |-> a, n |-> n, err |-> "none"]
Quiet == Emits("none", 0)
Response(status) == Emits("Response", status)
ShutdownAgain == Emits("ShutdownAgain", 0)
BackoffSleep(delay) == Emits("Backoff", delay)
Reply == Emits("Reply", 0)
DestroyWarning == Emits("DestroyWarning", 0)
UnhandledRejection == Emits("UnhandledRejection", 0)

\* the output of a step that also logs the error of a failed attempt
Failed(out, error) == [out EXCEPT !.err = error]

\* ------------------------------------------------- chat id of a target
\* A string is the sequence of its characters.

\* '@c.us' and '@g.us'
ContactSuffix == <<"@", "c", ".", "u", "s">>
GroupSuffix == <<"@", "g", ".", "u", "s">>

\* target.length > 15
GroupLength == 15

\* \d of a regular expression
IsDigit(c) == c \in {"0", "1", "2", "3", "4", "5", "6", "7", "8", "9"}

\* s.includes(p)
Includes(s, p) ==
    \E i \in 0..(Len(s) - Len(p)) : SubSeq(s, i + 1, i + Len(p)) = p

\* /^\d+$/.test(s)
OnlyDigits(s) == Len(s) > 0 /\ \A i \in 1..Len(s) : IsDigit(s[i])

\* s.replace(/\D/g, '')
DigitsOf(s) == SelectSeq(s, IsDigit)

\* the chatId that POST /send and POST /send-pdf compute from the target
ChatId(target) ==
    IF Includes(target, GroupSuffix) \/ Includes(target, ContactSuffix)
    THEN target
    ELSE IF Len(target) > GroupLength /\ OnlyDigits(target)
         THEN target \o GroupSuffix
         ELSE DigitsOf(target) \o ContactSuffix

\* The targets tried: every string made of at most MaxPieces of these pieces,
\* one after the other: a digit, a character that is no digit, either suffix
\* and a number of GroupLength digits.  The empty target never reaches the
\* resolution (it is answered with 400).
Pieces ==
    { <<"7">>, <<"+">>, ContactSuffix, GroupSuffix, [i \in 1..GroupLength |-> "5"] }

RECURSIVE Joined(_)
Joined(pieces) ==
    IF pieces = <<>> THEN <<>> ELSE Head(pieces) \o Joined(Tail(pieces))

Targets ==
    { Joined(pieces) : pieces \in UNION { [1..n -> Pieces] : n \in 1..MaxPieces } }

\* ------------------------------------------------- detectZodiacSigns
\* A text is the sequence of its characters; a letter with an acute accent is
\* written with an apostrophe ("e'"), and a symbol by the name of its sign.

\* The sign table in its order: for each sign its symbol and the words that
\* the group of its regular expression matches (in lower case).
zodiacSigns ==
    <<
    \* /\b(aries)\b/i
      [emoji |-> "Aries",
       words |->
         { <<"a", "r", "i", "e", "s">> }],
      \* /\b(tauros?)\b/i
      [emoji |-> "Taurus",
       words |->
         { <<"t", "a", "u", "r", "o">>,
           <<"t", "a", "u", "r", "o", "s">> }],
      \* /\b(g[ee']minis?)\b/i
      [emoji |-> "Gemini",
       words |->
         { <<"g", "e", "m", "i", "n", "i">>,
           <<"g", "e", "m", "i", "n", "i", "s">>,
           <<"g", "e'", "m", "i", "n", "i">>,
           <<"g", "e'", "m", "i", "n", "i", "s">> }],
      \* /\b(c[aa']ncer)\b/i
      [emoji |-> "Cancer",
       words |->
         { <<"c", "a", "n", "c", "e", "r">>,
           <<"c", "a'", "n", "c", "e", "r">> }],
      \* /\b(leos?)\b/i
      [emoji |-> "Leo",
       words |->
         { <<"l", "e", "o">>,
           <<"l", "e", "o", "s">> }],
      \* /\b(virgos?)\b/i
      [emoji |-> "Virgo",
       words |->
         { <<"v", "i", "r", "g", "o">>,
           <<"v", "i", "r", "g", "o", "s">> }],
      \* /\b(libras?)\b/i
      [emoji |-> "Libra",
       words |->
         { <<"l", "i", "b", "r", "a">>,
           <<"l", "i", "b", "r", "a", "s">> }],
      \* /\b(escorpi[oo']n?(?:es)?|escorpios?)\b/i
      [emoji |-> "Scorpio",
       words |->
         { <<"e", "s", "c", "o", "r", "p", "i", "o">>,
           <<"e", "s", "c", "o", "r", "p", "i", "o", "e", "s">>,
           <<"e", "s", "c", "o", "r", "p", "i", "o", "n">>,
           <<"e", "s", "c", "o", "r", "p", "i", "o", "n", "e", "s">>,
           <<"e", "s", "c", "o", "r", "p", "i", "o", "s">>,
           <<"e", "s", "c", "o", "r", "p", "i", "o'">>,
           <<"e", "s", "c", "o", "r", "p", "i", "o'", "e", "s">>,
           <<"e", "s", "c", "o", "r", "p", "i", "o'", "n">>,
           <<"e", "s", "c", "o", "r", "p", "i", "o'", "n", "e", "s">> }],
      \* /\b(sagitarios?)\b/i
      [emoji |-> "Sagittarius",
       words |->
         { <<"s", "a", "g", "i", "t", "a", "r", "i", "o">>,
           <<"s", "a", "g", "i", "t", "a", "r", "i", "o", "s">> }],
      \* /\b(capricornios?)\b/i
      [emoji |-> "Capricorn",
       words |->
         { <<"c", "a", "p", "r", "i", "c", "o", "r", "n", "i", "o">>,
           <<"c", "a", "p", "r", "i", "c", "o", "r", "n", "i", "o", "s">> }],
      \* /\b(acuarios?)\b/i
      [emoji |-> "Aquarius",
       words |->
         { <<"a", "c", "u", "a", "r", "i", "o">>,
           <<"a", "c", "u", "a", "r", "i", "o", "s">> }],
      \* /\b(piscis)\b/i
      [emoji |-> "Pisces",
       words |->
         { <<"p", "i", "s", "c", "i", "s">> }]
    >>

\* the capital letters and their small letters
lowerCase ==
    ("A" :> "a") @@ ("B" :> "b") @@ ("C" :> "c") @@ ("D" :> "d") @@ ("E" :> "e")
    @@ ("F" :> "f") @@ ("G" :> "g") @@ ("H" :> "h") @@ ("I" :> "i") @@ ("J" :> "j")
    @@ ("K" :> "k") @@ ("L" :> "l") @@ ("M" :> "m") @@ ("N" :> "n") @@ ("O" :> "o")
    @@ ("P" :> "p") @@ ("Q" :> "q") @@ ("R" :> "r") @@ ("S" :> "s") @@ ("T" :> "t")
    @@ ("U" :> "u") @@ ("V" :> "v") @@ ("W" :> "w") @@ ("X" :> "x") @@ ("Y" :> "y")
    @@ ("Z" :> "z") @@ ("A'" :> "a'") @@ ("E'" :> "e'") @@ ("O'" :> "o'")

\* the flag i of the regular expressions: the letters compare in one case
Lower(c) == IF c \in DOMAIN lowerCase THEN lowerCase[c] ELSE c

\* \w of a regular expression: the letters without accent, the digits and _
IsWordChar(c) ==
    c \in {"a", "b", "c", "d", "e", "f", "g", "h", "i", "j", "k", "l", "m",
           "n", "o", "p", "q", "r", "s", "t", "u", "v", "w", "x", "y", "z",
           "A", "B", "C", "D", "E", "F", "G", "H", "I", "J", "K", "L", "M",
           "N", "O", "P", "Q", "R", "S", "T", "U", "V", "W", "X", "Y", "Z",
           "0", "1", "2", "3", "4", "5", "6", "7", "8", "9", "_"}

\* \b before the character at position i of the text (i = Len(text) + 1: at
\* the end): a word character on one side and none on the other
IsBoundary(text, i) ==
    LET wordAt(k) == k \in 1..Len(text) /\ IsWordChar(text[k])
    IN  wordAt(i - 1) # wordAt(i)

\* the regular expression of a sign matches at position i of the text
MatchesAt(sign, text, i) ==
    \E word \in sign.words :
        /\ i + Len(word) - 1 <= Len(text)
        /\ \A k \in 1..Len(word) : Lower(text[i + k - 1]) = word[k]
        /\ IsBoundary(text, i)
        /\ IsBoundary(text, i + Len(word))

\* match.index of the first match of the sign in the text, counted from 1;
\* 0 if regex.exec finds none
FirstMatch(sign, text) ==
    LET found == { i \in 1..Len(text) : MatchesAt(sign, text, i) }
    IN  IF found = {} THEN 0 ELSE CHOOSE i \in found : \A j \in found : i <= j

\* matches.sort((a, b) => a.index - b.index): a stable sort, by insertion
RECURSIVE SortedByIndex(_)
SortedByIndex(matches) ==
    IF matches = <<>> THEN <<>>
    ELSE LET front == SortedByIndex(SubSeq(matches, 1, Len(matches) - 1))
             m == matches[Len(matches)]
         IN  SelectSeq(front, LAMBDA a : a.index <= m.index)
                 \o <<m>> \o SelectSeq(front, LAMBDA a : a.index > m.index)

\* mutant of the detector: the matches are returned in the order of the table
detectZodiacSignsUnsorted(text) ==
    LET first == [k \in 1..Len(zodiacSigns) |->
                      [emoji |-> zodiacSigns[k].emoji,
                       index |-> FirstMatch(zodiacSigns[k], text)]]
        matches == SelectSeq(first, LAMBDA m : m.index # 0)
    IN  [k \in 1..Len(matches) |-> matches[k].emoji]

\* detectZodiacSigns(text): for each sign of the table that matches, its
\* symbol with the index of its first match; sorted by index
detectZodiacSigns(text) ==
    LET first == [k \in 1..Len(zodiacSigns) |->
                      [emoji |-> zodiacSigns[k].emoji,
                       index |-> FirstMatch(zodiacSigns[k], text)]]
        matches == SelectSeq(first, LAMBDA m : m.index # 0)
        sorted == SortedByIndex(matches)
    IN  [k \in 1..Len(sorted) |-> sorted[k].emoji]

\* The texts tried: every string made of at most MaxParts of these parts, one
\* after the other: words that name a sign in lower and in upper case, with
\* and without a blank behind them, a word that names none, a letter, a
\* letter with an accent, a blank and the ping command.
Parts ==
    { <<"l", "e", "o", " ">>, <<"A", "r", "i", "e", "s", " ">>, <<"L", "E", "O">>,
      <<"h", "o", "l", "a", " ">>, <<"s">>, <<"o'">>, <<" ">>,
      <<"!", "p", "i", "n", "g">> }

Texts ==
    { Joined(parts) : parts \in UNION { [1..n -> Parts] : n \in 0..MaxParts } }

\* ------------------------------------------------- cleanChromiumLocks
\* A name is a sequence of parts, each of them a word that no marker spans.
\* An entry of the tree is [path, isDirectory], its path the sequence of the
\* names from the directory that is cleaned down to the entry.  A directory
\* is [exists, entries].

\* const lockPatterns = ['SingletonLock', 'SingletonSocket', 'SingletonCookie']
lockPatterns == { <<"SingletonLock">>, <<"SingletonSocket">>, <<"SingletonCookie">> }

\* the names that entries have: the markers, a name that contains a marker
\* and a name that contains none
Names == lockPatterns \cup { <<"SingletonCookie", "-journal">>, <<"Preferences">> }

\* what fails in the filesystem during a call: nothing, or every call of
\* one of the three functions
Faults == {"none", "mkdirSync", "readdirSync", "unlinkSync"}

Entry(path, isDirectory) == [path |-> path, isDirectory |-> isDirectory]
Missing == [exists |-> FALSE, entries |-> {}]
Empty == [exists |-> TRUE, entries |-> {}]

\* entry.name
NameOf(entry) == entry.path[Len(entry.path)]

\* readdirSync(dir, { withFileTypes: true })
Listing(entries, dir) ==
    { e \in entries : Len(e.path) = Len(dir) + 1 /\ SubSeq(e.path, 1, Len(dir)) = dir }

\* mutant of the match: the directories are not told from the files
MatchesAnyKind(entry) == \E pattern \in lockPatterns : Includes(NameOf(entry), pattern)

\* entry is no directory and lockPatterns.some(pattern => entry.name.includes(pattern))
Matches(entry) ==
    /\ ~entry.isDirectory
    /\ \E pattern \in lockPatterns : Includes(NameOf(entry), pattern)

\* the entries that the call for the existing directory dir unlinks: the
\* matching ones of its listing and those of the calls for its directories
RECURSIVE Unlinked(_, _, _)
Unlinked(entries, dir, fault) ==
    IF fault = "readdirSync"
    THEN {}
    ELSE LET listing == Listing(entries, dir)
         IN  (IF fault = "unlinkSync" THEN {} ELSE { e \in listing : Matches(e) })
                 \cup UNION { Unlinked(entries, e.path, fault) :
                                  e \in { d \in listing : d.isDirectory } }

\* cleanChromiumLocks(dir): whether it throws and the directory it leaves
cleanChromiumLocks(dir, fault) ==
    IF ~dir.exists
    THEN IF fault = "mkdirSync"
         THEN [threw |-> TRUE, dir |-> dir]
         ELSE [threw |-> FALSE, dir |-> Empty]
    ELSE [threw |-> FALSE,
          dir |-> [dir EXCEPT !.entries = @ \ Unlinked(@, <<>>, fault)]]

\* whether a call of cleanChromiumLocks throws: each outcome that some
\* directory and some failure of the filesystem give
LockCleaning ==
    { cleanChromiumLocks(dir, fault).threw : dir \in {Missing, Empty}, fault \in Faults }

\* no function is being evaluated; no result yet
NoValue == <<>>

\* -------------------------------------------------------------------- Init
\* the state of the program when the module has been loaded
Startup ==
    /\ client = NoHandle
    /\ orphans = EmptyBag
    /\ isShuttingDown = FALSE
    /\ isReady = FALSE
    /\ initializationAttempt = 0
    /\ tasks = SetToBag({StartTask})
    /\ sd = [pc |-> "none", origin |-> "none"]
    /\ req = "none"
    /\ inbox = "none"
    /\ exited = FALSE
    /\ exitCode = 0
    /\ hist = [attempts |-> 0, sinceReady |-> 0, fails |-> 0, readySeen |-> FALSE]
    /\ last = Quiet

Init ==
    /\ Startup
    /\ arg = NoValue
    /\ ret = NoValue

\* process.exit(code): nothing that was pending runs any more
Exit(code) ==
    /\ exited' = TRUE
    /\ exitCode' = code
    /\ tasks' = EmptyBag

\* ------------------------------------------------- initializeWithRetry
\* The catch branch of an attempt of invocation x, entered with the attempt
\* counter at value attempt: back off and loop, or process.exit(1).
\* fresh describes the failed attempt, h0 is the history before it failed and
\* error is what was thrown, which the branch logs.
CatchBranch(x, attempt, fresh, h0, error) ==
    /\ hist' = [h0 EXCEPT !.fails = IF fresh THEN Bump(@) ELSE @]
    /\ IF RetryDecision(attempt, isShuttingDown)
       THEN /\ tasks' = Replace(x, Task("backoff", FALSE))
            /\ last' = Failed(BackoffSleep(BackoffDelay(attempt)), error)
            /\ UNCHANGED <<exited, exitCode>>
       ELSE /\ Exit(FailureExitCode)
            /\ last' = Failed(Quiet, error)

\* One pass from the loop guard to the first suspension point: run at startup,
\* when a backoff sleep ends and when the reconnect delay of a 'disconnected'
\* handler ends.  lockThrows: one of the two calls of cleanChromiumLocks
\* throws.
LoopStep(x, lockThrows) ==
    /\ UNCHANGED <<arg, ret, inbox>>
    /\ ~exited
    /\ x.pc \in {"start", "reconnectDelay", "backoff"}
    /\ IF ~LoopGuard(initializationAttempt, isShuttingDown)
       THEN /\ tasks' = Without(x)
            /\ last' = Quiet
            /\ UNCHANGED <<client, initializationAttempt, exited, exitCode, hist>>
       ELSE LET started == [hist EXCEPT !.attempts = Bump(@),
                                        !.sinceReady = Bump(@)]
                n == initializationAttempt + 1
            IN  /\ initializationAttempt' = n
                /\ IF lockThrows
                   THEN /\ CatchBranch(x, n, TRUE, started, "mkdirSync")
                        /\ client' = client
                   ELSE /\ hist' = started
                        /\ last' = Quiet
                        /\ IF client # NoHandle
                           THEN /\ client' = Destroyed(client)
                                /\ tasks' = Replace(x, Task("awaitDestroy", TRUE))
                           ELSE /\ client' = client
                                /\ tasks' = Replace(x, Task("pause", TRUE))
                        /\ UNCHANGED <<exited, exitCode>>
    /\ UNCHANGED <<orphans, isShuttingDown, isReady, sd, req>>

\* mutant of the inner catch: a destroy that fails is thrown on to the catch
\* branch of the attempt
DestroySettlesErrorThrown(x, ok) ==
    /\ UNCHANGED <<arg, ret, inbox>>
    /\ ~exited
    /\ x.pc = "awaitDestroy"
    /\ IF ok
       THEN /\ client' = NoHandle
            /\ orphans' = Orphaned
            /\ tasks' = Replace(x, [x EXCEPT !.pc = "pause"])
            /\ last' = Quiet
            /\ UNCHANGED <<exited, exitCode, hist>>
       ELSE /\ CatchBranch(x, initializationAttempt, x.fresh, hist, "destroy")
            /\ UNCHANGED <<client, orphans>>
    /\ UNCHANGED <<isShuttingDown, isReady, initializationAttempt, sd, req>>

\* await client.destroy() of the previous handle settles (ok or with an error,
\* which is only logged); then client = null and the 2 s pause starts.
DestroySettles(x, ok) ==
    /\ UNCHANGED <<arg, ret, inbox>>
    /\ ~exited
    /\ x.pc = "awaitDestroy"
    /\ client' = NoHandle
    /\ orphans' = Orphaned
    /\ tasks' = Replace(x, [x EXCEPT !.pc = "pause"])
    /\ last' = IF ok THEN Quiet ELSE DestroyWarning
    /\ UNCHANGED <<isShuttingDown, isReady, initializationAttempt,
                   sd, req, exited, exitCode, hist>>

\* sleep(2000) ends: client = createClient(); setupClientEventHandlers(client);
\* client.initialize() is called and raced against the 180 s timer.
CreateAndInitialize(x) ==
    /\ UNCHANGED <<arg, ret, inbox>>
    /\ ~exited
    /\ x.pc = "pause"
    /\ BagCardinality(Orphaned) < MaxHandles
    /\ client' = Handle("new", 0)
    /\ orphans' = Orphaned
    /\ tasks' = Replace(x, [x EXCEPT !.pc = "awaitInit"])
    /\ last' = Quiet
    /\ UNCHANGED <<isShuttingDown, isReady, initializationAttempt, sd, req,
                   exited, exitCode, hist>>

\* initialize() resolves before the timer: the invocation returns.
InitializeResolves(x) ==
    /\ UNCHANGED <<arg, ret, inbox>>
    /\ ~exited
    /\ x.pc = "awaitInit"
    /\ tasks' = Without(x)
    /\ last' = Quiet
    /\ UNCHANGED <<client, orphans, isShuttingDown, isReady,
                   initializationAttempt, sd, req, exited, exitCode, hist>>

\* mutant of the race: the timeout ends the process at once
InitializeFailsTimeoutFatal(x, reason) ==
    /\ UNCHANGED <<arg, ret, inbox>>
    /\ ~exited
    /\ x.pc = "awaitInit"
    /\ reason \in InitializeRace
    /\ IF reason = "timeout"
       THEN /\ Exit(FailureExitCode)
            /\ last' = Failed(Quiet, reason)
            /\ hist' = [hist EXCEPT !.fails = IF x.fresh THEN Bump(@) ELSE @]
       ELSE CatchBranch(x, initializationAttempt, x.fresh, hist, reason)
    /\ UNCHANGED <<client, orphans, isShuttingDown, isReady,
                   initializationAttempt, sd, req>>

\* initialize() rejects, or the 180 s timer rejects first: the catch branch.
InitializeFails(x, reason) ==
    /\ UNCHANGED <<arg, ret, inbox>>
    /\ ~exited
    /\ x.pc = "awaitInit"
    /\ reason \in InitializeRace
    /\ CatchBranch(x, initializationAttempt, x.fresh, hist, reason)
    /\ UNCHANGED <<client, orphans, isShuttingDown, isReady,
                   initializationAttempt, sd, req>>

\* ------------------------------------------------------ session events
\* client.on('ready') of handle e: isReady = true; initializationAttempt = 0.
OnReady(e) ==
    /\ UNCHANGED <<arg, ret, inbox>>
    /\ ~exited
    /\ e \in Emitters
    /\ e.h.phase = "new"
    /\ isReady' = ReadyOnReady
    /\ initializationAttempt' = ReadyReset(initializationAttempt)
    /\ client' = SlotAfter(e, "ready")
    /\ orphans' = OrphansAfter(e, "ready")
    /\ tasks' = AllStale(tasks)
    /\ hist' = [hist EXCEPT !.sinceReady = 0, !.fails = 0, !.readySeen = TRUE]
    /\ last' = Quiet
    /\ UNCHANGED <<isShuttingDown, sd, req, exited, exitCode>>

\* client.on('disconnected') of handle e: isReady = false; if not shutting
\* down and retries remain, sleep 5 s and then call initializeWithRetry().
OnDisconnected(e) ==
    /\ UNCHANGED <<arg, ret, inbox>>
    /\ ~exited
    /\ e \in Emitters
    /\ isReady' = ReadyOnDisconnected
    /\ client' = SlotAfter(e, "disc")
    /\ orphans' = OrphansAfter(e, "disc")
    /\ IF ReconnectGuard(initializationAttempt, isShuttingDown)
       THEN /\ BagCardinality(tasks) < MaxTasks
            /\ tasks' = tasks (+) SetToBag({ReconnectTask})
       ELSE tasks' = tasks
    /\ last' = Quiet
    /\ UNCHANGED <<isShuttingDown, initializationAttempt, sd,
                   req, exited, exitCode, hist>>

\* ------------------------------------------------------ inbound messages
\* '!ping' and 'pong'
Ping == <<"!", "p", "i", "n", "g">>
Pong == <<"p", "o", "n", "g">>

\* s.trim()
RECURSIVE Trim(_)
Trim(s) ==
    IF s = <<>> THEN s
    ELSE IF Head(s) = " " THEN Trim(Tail(s))
    ELSE IF s[Len(s)] = " " THEN Trim(SubSeq(s, 1, Len(s) - 1))
    ELSE s

\* !msg.body || msg.body.trim() === ''
Blank(body) == body = <<>> \/ Trim(body) = <<>>

\* zodiacEmojis.join(' ')
RECURSIVE JoinedByBlank(_)
JoinedByBlank(symbols) ==
    IF Len(symbols) <= 1 THEN symbols
    ELSE <<Head(symbols), " ">> \o JoinedByBlank(Tail(symbols))

\* mutant of the rules: the command is any body that starts with '!ping'
MessageRepliesPingPrefix(body) ==
    IF Blank(body) THEN <<>>
    ELSE IF Len(body) >= Len(Ping) /\ SubSeq(body, 1, Len(Ping)) = Ping THEN <<Pong>>
    ELSE LET zodiacEmojis == detectZodiacSigns(body)
         IN  IF Len(zodiacEmojis) > 0 THEN <<JoinedByBlank(zodiacEmojis)>> ELSE <<>>

\* the texts the handler passes to msg.reply for a body, in their order:
\* none for a blank body; 'pong' for '!ping'; else the detected symbols, if
\* there are any
MessageReplies(body) ==
    IF Blank(body) THEN <<>>
    ELSE IF body = Ping THEN <<Pong>>
    ELSE LET zodiacEmojis == detectZodiacSigns(body)
         IN  IF Len(zodiacEmojis) > 0 THEN <<JoinedByBlank(zodiacEmojis)>> ELSE <<>>

\* whether the handler calls msg.reply
Replies(body) == MessageReplies(body) # <<>>

\* msg.from of the messages tried
Sender == "5215512345678@c.us"

\* what msg.getContact() gives: a contact with a pushname, with a name only,
\* with neither, or a rejection
Contacts == {"pushname", "name", "unnamed", "throws"}

\* a message: its body, whether it has media and what getContact gives
Message(body, hasMedia, contact) ==
    [body |-> body, hasMedia |-> hasMedia, contact |-> contact]

\* mutant of logMessage: the rejection of getContact is not caught
logMessageRethrows(msg) ==
    IF msg.contact = "throws"
    THEN [threw |-> TRUE, lines |-> <<>>]
    ELSE [threw |-> FALSE,
          lines |-> IF Blank(msg.body) /\ ~msg.hasMedia
                    THEN <<>>
                    ELSE << [name |-> msg.contact, number |-> Sender,
                             content |-> IF Blank(msg.body) THEN <<"[TYPE]">> ELSE msg.body] >>]

\* logMessage(msg, 'RECIBIDO'): whether it throws and the lines it logs, each
\* with the display name, the number and the content
logMessage(msg) ==
    LET name == CASE msg.contact = "pushname" -> "pushname"
                  [] msg.contact = "name" -> "name"
                  [] msg.contact = "unnamed" -> "Sin nombre"
                  [] msg.contact = "throws" -> Sender
    IN  [threw |-> FALSE,
         lines |-> IF Blank(msg.body) /\ ~msg.hasMedia
                   THEN <<>>
                   ELSE << [name |-> name, number |-> Sender,
                            content |-> IF Blank(msg.body) THEN <<"[TYPE]">> ELSE msg.body] >>]

\* the 'message' handler from the event to its last call of msg.reply: what
\* is logged and what is replied; nothing is replied if logMessage throws
MessageHandler(msg) ==
    LET log == logMessage(msg)
    IN  [log |-> log, replies |-> IF log.threw THEN <<>> ELSE MessageReplies(msg.body)]

\* the bodies of the messages that come in while the program runs: none,
\* blank, the ping command, a text that names a sign and a text that names none
Bodies ==
    { <<>>, <<" ">>, Ping, <<"l", "e", "o", " ">>, <<"h", "o", "l", "a", " ">> }

\* client.on('message') of handle e: the handler calls logMessage, which
\* awaits msg.getContact().
OnMessage(e) ==
    /\ ~exited
    /\ e \in Emitters
    /\ inbox = "none"
    /\ inbox' = "logging"
    /\ last' = Quiet
    /\ UNCHANGED <<client, orphans, isShuttingDown, isReady, initializationAttempt,
                   tasks, sd, req, exited, exitCode, hist, arg, ret>>

\* logMessage returns (getContact resolved or rejected): the handler goes on
\* with the body of the message; if a rule applies it calls msg.reply and
\* awaits it.
MessageLogged(body) ==
    /\ ~exited
    /\ inbox = "logging"
    /\ body \in Bodies
    /\ inbox' = IF Replies(body) THEN "replying" ELSE "none"
    /\ last' = IF Replies(body) THEN Reply ELSE Quiet
    /\ UNCHANGED <<client, orphans, isShuttingDown, isReady, initializationAttempt,
                   tasks, sd, req, exited, exitCode, hist, arg, ret>>

\* mutant of the rejection handler: an unhandled rejection ends the process
ReplySettlesRejectionFatal(ok) ==
    /\ ~exited
    /\ inbox = "replying"
    /\ inbox' = "none"
    /\ last' = IF ok THEN Quiet ELSE UnhandledRejection
    /\ IF ok THEN UNCHANGED <<exited, exitCode, tasks>> ELSE Exit(FailureExitCode)
    /\ UNCHANGED <<client, orphans, isShuttingDown, isReady, initializationAttempt,
                   sd, req, hist, arg, ret>>

\* await msg.reply(...) settles.  The handler has no try: a rejection rejects
\* the promise of the handler, which nobody awaits, and the 'unhandledRejection'
\* handler of the process logs it.
ReplySettles(ok) ==
    /\ ~exited
    /\ inbox = "replying"
    /\ inbox' = "none"
    /\ last' = IF ok THEN Quiet ELSE UnhandledRejection
    /\ UNCHANGED <<client, orphans, isShuttingDown, isReady, initializationAttempt,
                   tasks, sd, req, exited, exitCode, hist, arg, ret>>

\* ------------------------------------------------------ gracefulShutdown
\* A SIGINT, SIGTERM or uncaughtException handler calls gracefulShutdown: a
\* no-op if the flag is set; otherwise set it and, if there is a handle,
\* invoke destroy on it and race it against the 5 s timer, else exit at once.
GracefulShutdown(signal) ==
    /\ UNCHANGED <<arg, ret, inbox>>
    /\ ~exited
    /\ Started
    /\ signal \in Signals
    /\ IF ShutdownAlreadyInProgress(isShuttingDown)
       THEN /\ last' = ShutdownAgain
            /\ UNCHANGED <<client, isShuttingDown, sd, tasks, exited, exitCode>>
       ELSE /\ isShuttingDown' = TRUE
            /\ last' = Quiet
            /\ IF client # NoHandle
               THEN /\ client' = Destroyed(client)
                    /\ sd' = [pc |-> "awaitDestroy", origin |-> Origin(signal)]
                    /\ UNCHANGED <<tasks, exited, exitCode>>
               ELSE /\ sd' = [pc |-> "done", origin |-> Origin(signal)]
                    /\ Exit(ShutdownExitCode(signal))
                    /\ client' = client
    /\ UNCHANGED <<orphans, isReady, initializationAttempt, req, hist>>

\* The race of gracefulShutdown settles: destroy resolved, destroy rejected,
\* or the 5 s timer rejected; all three continue to process.exit(0).
ShutdownDestroySettles(outcome) ==
    /\ UNCHANGED <<arg, ret, inbox>>
    /\ ~exited
    /\ sd.pc = "awaitDestroy"
    /\ outcome \in DestroyRace
    /\ sd' = [sd EXCEPT !.pc = "done"]
    /\ Exit(ShutdownExitCode(sd.origin))
    /\ last' = Quiet
    /\ UNCHANGED <<client, orphans, isShuttingDown, isReady,
                   initializationAttempt, req, hist>>

\* ------------------------------------------------------------ HTTP API
\* A POST to one of the send endpoints arrives; the handler awaits
\* request.json().
RequestArrives(ep) ==
    /\ UNCHANGED <<arg, ret, inbox>>
    /\ ~exited
    /\ Started
    /\ ep \in Endpoints
    /\ req = "none"
    /\ req' = "parsing"
    /\ last' = Quiet
    /\ UNCHANGED <<client, orphans, isShuttingDown, isReady,
                   initializationAttempt, tasks, sd, exited, exitCode, hist>>

\* mutant of the order of the checks: readiness before the required fields
PreSendStatusReadinessFirst(ep, parses, wellFormed, pdfExists, ready, c) ==
    IF ~parses THEN 500
    ELSE IF NotReady(ready, c) THEN 503
    ELSE IF ~wellFormed THEN 400
    ELSE IF ep = "/send-pdf" /\ ~pdfExists THEN 500
    ELSE 0

\* The status the handler answers with before sending, or 0 if it goes on
\* to call client.sendMessage: 500 body does not parse, 400 field missing,
\* 503 not ready, 500 PDF file missing (/send-pdf only).
PreSendStatus(ep, parses, wellFormed, pdfExists, ready, c) ==
    IF ~parses THEN 500
    ELSE IF ~wellFormed THEN 400
    ELSE IF NotReady(ready, c) THEN 503
    ELSE IF ep = "/send-pdf" /\ ~pdfExists THEN 500
    ELSE 0

\* The body of the request to ep is available: validation, readiness check
\* and the call of client.sendMessage run without suspension.
RequestHandled(ep, parses, wellFormed, pdfExists) ==
    /\ UNCHANGED <<arg, ret, inbox>>
    /\ ~exited
    /\ ep \in Endpoints
    /\ req = "parsing"
    /\ LET st == PreSendStatus(ep, parses, wellFormed, pdfExists, isReady, client)
       IN  /\ req' = IF st = 0 THEN "sending" ELSE "none"
           /\ last' = IF st = 0 THEN Quiet ELSE Response(st)
    /\ UNCHANGED <<client, orphans, isShuttingDown, isReady,
                   initializationAttempt, tasks, sd, exited, exitCode, hist>>

\* await client.sendMessage(...) settles: 200 on success, 500 on error.
SendSettles(ok) ==
    /\ UNCHANGED <<arg, ret, inbox>>
    /\ ~exited
    /\ req = "sending"
    /\ req' = "none"
    /\ last' = Response(IF ok THEN 200 ELSE 500)
    /\ UNCHANGED <<client, orphans, isShuttingDown, isReady,
                   initializationAttempt, tasks, sd, exited, exitCode, hist>>

\* the requests, up to what the handlers look at: the endpoint, whether the
\* body parses as JSON to an object (request.json() and the destructuring of
\* the body do not throw), whether it has the required fields (only a body
\* that parses has fields) and, for /send-pdf, whether the PDF file exists
Requests ==
    {r \in [ep : Endpoints, parses : BOOLEAN, wellFormed : BOOLEAN,
            pdfExists : BOOLEAN] :
        /\ r.wellFormed => r.parses
        /\ r.ep # "/send-pdf" => r.pdfExists}

\* ------------------------------------------------------------------ Next
\* the lifecycle manager and the shutdown coordinator
Next ==
    \/ \E x \in Pending, lockThrows \in LockCleaning : LoopStep(x, lockThrows)
    \/ \E x \in Pending, ok \in BOOLEAN : DestroySettles(x, ok)
    \/ \E x \in Pending : CreateAndInitialize(x)
    \/ \E x \in Pending : InitializeResolves(x)
    \/ \E x \in Pending, reason \in InitializeRace : InitializeFails(x, reason)
    \/ \E e \in Emitters : OnReady(e)
    \/ \E e \in Emitters : OnDisconnected(e)
    \/ \E signal \in Signals : GracefulShutdown(signal)
    \/ \E outcome \in DestroyRace : ShutdownDestroySettles(outcome)

Spec == Init /\ [][Next]_vars

\* What the event loop guarantees: a timer that was set fires and the code
\* behind it runs (the startup call, the end of a backoff sleep, of a reconnect
\* delay and of the 2 s pause, the 180 s and 5 s timers of the two races).  An
\* external call (destroy, initialize) may never settle and a session event or
\* a signal may never come.
Timers ==
    /\ WF_vars(\E x \in Pending, lockThrows \in LockCleaning : LoopStep(x, lockThrows))
    /\ WF_vars(\E x \in Pending : CreateAndInitialize(x))
    /\ WF_vars(\E x \in Pending : InitializeFails(x, "timeout"))
    /\ WF_vars(ShutdownDestroySettles("timeout"))

FairSpec == Init /\ [][Next]_vars /\ Timers

\* the same with the HTTP send endpoints
NextApi ==
    \/ Next
    \/ \E ep \in Endpoints : RequestArrives(ep)
    \/ \E r \in Requests :
           RequestHandled(r.ep, r.parses, r.wellFormed, r.pdfExists)
    \/ \E ok \in BOOLEAN : SendSettles(ok)

SpecApi == Init /\ [][NextApi]_vars

\* the program with the messages that come in
NextMsg ==
    \/ Next
    \/ \E e \in Emitters : OnMessage(e)
    \/ \E body \in Bodies : MessageLogged(body)
    \/ \E ok \in BOOLEAN : ReplySettles(ok)

SpecMsg == Init /\ [][NextMsg]_vars

\* ------------------------------------ the functions, one call at a time
\* the state of the program, which evaluating a function leaves alone
program == <<client, orphans, isShuttingDown, isReady, initializationAttempt,
             tasks, sd, req, inbox, exited, exitCode, hist, last>>

InitResolve ==
    /\ Startup
    /\ arg \in Targets
    /\ ret = NoValue

\* the resolution of the target of a request
ResolveTarget ==
    /\ ret = NoValue
    /\ ret' = ChatId(arg)
    /\ UNCHANGED <<program, arg>>

NextResolve == ResolveTarget

SpecResolve == InitResolve /\ [][NextResolve]_vars

InitClean ==
    /\ Startup
    /\ arg \in {Missing, Empty}
    /\ ret = NoValue

\* The browser, or anything else, creates a file or a directory below the
\* directory before the call.
CreateEntry(parent, name, isDirectory) ==
    /\ ret = NoValue
    /\ arg.exists
    /\ Cardinality(arg.entries) < MaxEntries
    /\ parent = <<>> \/ Entry(parent, TRUE) \in arg.entries
    /\ \A e \in arg.entries : e.path # Append(parent, name)
    /\ arg' = [arg EXCEPT !.entries = @ \cup {Entry(Append(parent, name), isDirectory)}]
    /\ UNCHANGED <<program, ret>>

\* one call of cleanChromiumLocks, and the failure it met
CleanLocks(fault) ==
    /\ ret = NoValue
    /\ ret' = <<[fault |-> fault, call |-> cleanChromiumLocks(arg, fault)]>>
    /\ UNCHANGED <<program, arg>>

NextClean ==
    \/ \E e \in arg.entries \cup {Entry(<<>>, TRUE)}, name \in Names, isDirectory \in BOOLEAN :
           CreateEntry(e.path, name, isDirectory)
    \/ \E fault \in Faults : CleanLocks(fault)

SpecClean == InitClean /\ [][NextClean]_vars

InitDetect ==
    /\ Startup
    /\ arg \in Texts
    /\ ret = NoValue

\* one call of detectZodiacSigns
DetectSigns ==
    /\ ret = NoValue
    /\ ret' = <<detectZodiacSigns(arg)>>
    /\ UNCHANGED <<program, arg>>

NextDetect == DetectSigns

SpecDetect == InitDetect /\ [][NextDetect]_vars

\* the messages tried: every text, with and without media, with every
\* outcome of getContact
InitHandle ==
    /\ Startup
    /\ arg \in { Message(body, hasMedia, contact) :
                     body \in Texts, hasMedia \in BOOLEAN, contact \in Contacts }
    /\ ret = NoValue

\* one run of the 'message' handler
HandleMessage ==
    /\ ret = NoValue
    /\ ret' = <<MessageHandler(arg)>>
    /\ UNCHANGED <<program, arg>>

NextHandle == HandleMessage

SpecHandle == InitHandle /\ [][NextHandle]_vars

TypeOK ==
    /\ client \in [phase : {"null", "new", "ready", "disc"}, destroyCalls : Nat]
    /\ isShuttingDown \in BOOLEAN
    /\ isReady \in BOOLEAN
    /\ initializationAttempt \in Nat
    /\ exited \in BOOLEAN
    /\ exitCode \in {0, 1}
    /\ req \in {"none", "parsing", "sending"}
    /\ inbox \in {"none", "logging", "replying"}
    /\ BagCardinality(tasks) <= MaxTasks
    /\ LiveCount <= MaxHandles

\* ================================================================ claims

\* the step is a run of the 'ready' handler, of the 'disconnected' handler, a
\* call of gracefulShutdown
ReadyStep == \E e \in Emitters : OnReady(e)
DisconnectedStep == \E e \in Emitters : OnDisconnected(e)
ShutdownCall == \E signal \in Signals : GracefulShutdown(signal)

\* C1: at most one session handle is live (created and destroy not yet
\* invoked on it) in every reachable state.
C1_AtMostOneLive == LiveCount <= 1

\* C2: when MaxRetries attempts started since process start or the last
\* 'ready' have failed and no shutdown was triggered, the process has exited
\* with status 1; after an exit no attempt starts and no handle is created.
C2_ExhaustedRetriesExit ==
    [][ /\ (hist'.fails >= MaxRetries /\ ~isShuttingDown')
            => (exited' /\ exitCode' = 1)
        /\ exited => (initializationAttempt' = initializationAttempt
                      /\ client' = client /\ orphans' = orphans) ]_vars
C2_Witness ==
    exited /\ exitCode = 1 /\ hist.fails = MaxRetries /\ ~isShuttingDown
    /\ ~hist.readySeen /\ client # NoHandle

\* C3: the attempt counter stays within 0..MaxRetries, also while several
\* invocations of initializeWithRetry are pending.
C3_CounterInRange ==
    initializationAttempt >= 0 /\ initializationAttempt <= MaxRetries
C3_Witness ==
    /\ initializationAttempt = MaxRetries
    /\ BagCardinality(tasks) >= 2
    /\ \A x \in Pending : x.pc \in {"awaitDestroy", "pause", "awaitInit"}

\* C4: the step that handles 'ready' resets the counter to 0, and the number
\* of attempts started since the last 'ready' (or since process start) never
\* exceeds MaxRetries, while the total number of attempts may exceed it.
C4_ReadyResetsBudget ==
    [][ /\ ReadyStep => initializationAttempt' = 0
        /\ hist'.sinceReady <= MaxRetries ]_vars
C4_Witness ==
    hist.attempts > MaxRetries /\ hist.sinceReady = MaxRetries /\ hist.readySeen

\* C5: isReady is false until a handle reports 'ready', true after the step
\* that handles 'ready', false after the step that handles 'disconnected'
\* (whatever the shutdown flag and the counter), and no other step changes it.
C5_ReadinessFlag ==
    [][ /\ ~hist'.readySeen => ~isReady'
        /\ ReadyStep => isReady'
        /\ DisconnectedStep => ~isReady'
        /\ isReady' # isReady => (ReadyStep \/ DisconnectedStep) ]_vars
C5_Witness ==
    /\ ~isReady /\ hist.readySeen /\ client.phase = "disc"
    /\ isShuttingDown /\ initializationAttempt = MaxRetries /\ ~exited

\* C6: a well-formed request to /send, /send-group or /send-pdf handled while
\* isReady is false or the handle slot is empty is answered 503 without a call
\* of sendMessage, and sendMessage is only called in a step that starts with
\* isReady true and the slot filled.
C6_NotReadyIs503 ==
    [][ /\ (req = "parsing" /\ req' # "parsing"
                /\ (~isReady \/ client = NoHandle))
               => \A ep \in Endpoints, pdfExists \in BOOLEAN :
                      RequestHandled(ep, TRUE, TRUE, pdfExists)
                          => (last' = Response(503) /\ req' = "none")
        /\ (req = "parsing" /\ req' = "sending")
               => (isReady /\ client # NoHandle) ]_vars
C6_Witness ==
    last = Response(503) /\ req = "none" /\ ~isReady /\ client # NoHandle

\* C7: sendMessage is only invoked on a handle that has reported 'ready', has
\* not reported 'disconnected' since and on which destroy was not invoked.
C7_SendOnlyOnReadyHandle ==
    [][ (req = "parsing" /\ req' = "sending")
            => /\ client # NoHandle
               /\ client.phase = "ready"
               /\ client.destroyCalls = 0 ]_vars

\* C8: only the first call of gracefulShutdown sets the flag and invokes
\* destroy; a later call changes nothing (no destroy, no exit), and the flag is
\* never cleared.
C8_ShutdownIdempotent ==
    [][ /\ isShuttingDown => isShuttingDown'
        /\ (isShuttingDown /\ ShutdownCall)
               => /\ last' = ShutdownAgain
                  /\ UNCHANGED <<client, orphans, isShuttingDown, isReady,
                                 initializationAttempt, tasks, sd,
                                 req, exited, exitCode, hist>>
        /\ (~isShuttingDown /\ isShuttingDown') => ShutdownCall ]_vars
C8_Witness ==
    last = ShutdownAgain /\ sd.pc = "awaitDestroy" /\ ~exited
    /\ client.destroyCalls = 1

\* C9: once the shutdown flag is set the attempt counter is never incremented.
C9_NoAttemptAfterShutdown ==
    [][ isShuttingDown => (/\ initializationAttempt' <= initializationAttempt
                           /\ hist'.attempts = hist.attempts) ]_vars
C9_Witness ==
    /\ isShuttingDown /\ ~exited /\ initializationAttempt < MaxRetries
    /\ hist.readySeen /\ tasks = EmptyBag /\ client.phase = "disc"

\* C10: a shutdown initiated by SIGINT or SIGTERM ends in exit status 0.
C10_GracefulExitZero ==
    (exited /\ sd.origin = "signal") => exitCode = 0

\* C11: once the shutdown flag is set the process eventually exits, also when
\* destroy of the current handle never settles: the 5 s timer ends the race.
C11_ShutdownExits == isShuttingDown ~> exited
C11_Witness ==
    exited /\ exitCode = 0 /\ sd.pc = "done" /\ client.destroyCalls = 1

\* C12: a connection attempt that awaits an external session call (destroy of
\* the previous handle, initialize of the new one) eventually stops awaiting
\* it, also when the call never settles.
AwaitsCall == \E x \in Pending : x.pc \in {"awaitDestroy", "awaitInit"}
C12_HungCallsEnd == AwaitsCall ~> ~AwaitsCall

\* C13: the delay of every backoff sleep is BaseDelay * 2^(n-1) for the ordinal
\* n >= 1 of the attempt that failed; in particular it is one of the delays
\* of the schedule, whatever happened to the shared counter meanwhile.
C13_BackoffSchedule ==
    last.a = "Backoff"
        => \E n \in 1..MaxRetries : last.n = BaseDelay * Pow2(n - 1)

\* C14: when the handle in the slot has reported 'disconnected' with the retry
\* budget exhausted (the counter at MaxRetries; no attempt started since, or
\* destroy would have been invoked on the handle) or shutdown is in progress,
\* the process eventually exits.
DisconnectedAtDeadEnd ==
    /\ ~exited
    /\ client.phase = "disc"
    /\ \/ isShuttingDown
       \/ initializationAttempt = MaxRetries /\ client.destroyCalls = 0
C14_DeadEndTerminates == DisconnectedAtDeadEnd ~> exited

C16_TargetResolution ==
    LET EndsWith(s, p) ==
            Len(s) >= Len(p) /\ SubSeq(s, Len(s) - Len(p) + 1, Len(s)) = p
    IN  ret # NoValue
            => ret = IF EndsWith(arg, ContactSuffix) \/ EndsWith(arg, GroupSuffix)
                     THEN arg
                     ELSE IF OnlyDigits(arg) /\ Len(arg) > GroupLength
                          THEN arg \o GroupSuffix
                          ELSE DigitsOf(arg) \o ContactSuffix

\* C17: for an existing directory tree and no failure of the filesystem,
\* cleanChromiumLocks removes exactly the files whose name contains one of
\* the lock markers, at every depth, and leaves every other file and every
\* directory in place; for a missing directory it creates the directory and
\* removes nothing.
C17_ExactlyTheLocks ==
    (ret # NoValue /\ ret[1].fault = "none")
        => /\ ~ret[1].call.threw
           /\ ret[1].call.dir.exists
           /\ IF arg.exists
              THEN ret[1].call.dir.entries =
                       { e \in arg.entries :
                             \/ e.isDirectory
                             \/ \A marker \in lockPatterns : ~Includes(NameOf(e), marker) }
              ELSE ret[1].call.dir = Empty
C17_Witness ==
    /\ ret # NoValue
    /\ ret[1].fault = "none"
    /\ Entry(<<(<<"SingletonLock">>)>>, TRUE) \in ret[1].call.dir.entries
    /\ Entry(<<(<<"SingletonLock">>), (<<"SingletonSocket">>)>>, FALSE)
           \in arg.entries \ ret[1].call.dir.entries
    /\ Entry(<<(<<"Preferences">>)>>, FALSE) \in ret[1].call.dir.entries

\* C18: an attempt whose lock cleaning meets a failure of the filesystem (the
\* missing directory cannot be created, a directory cannot be listed, a lock
\* cannot be deleted) goes on to the session creation: the step neither
\* counts a failed attempt, nor starts a backoff sleep, nor exits.
C18_LockFailureNotFatal ==
    [][ \A x \in Pending, dir \in {Missing, Empty}, fault \in Faults \ {"none"} :
            ( /\ LoopGuard(initializationAttempt, isShuttingDown)
              /\ LoopStep(x, cleanChromiumLocks(dir, fault).threw) )
                => /\ ~exited'
                   /\ last' = Quiet
                   /\ hist'.fails = hist.fails
                   /\ \E y \in Pending' : y.pc \in {"awaitDestroy", "pause"} /\ y.fresh ]_vars

\* C19: a process whose shutdown was initiated by an uncaught exception has
\* exited, when it has exited, with a status that is not zero.
C19_UncaughtExitsNonZero ==
    (exited /\ sd.origin = "uncaughtException") => exitCode # 0

\* C20: msg.reply is called only while the readiness flag is true.
C20_ReplyOnlyWhenReady == last = Reply => isReady

\* C21: an attempt calls the factory only when the steps before it are done:
\* the locks cleaned, the previous handle destroyed and the slot cleared, the
\* 2 s pause over; so the slot holds no handle when createClient is called.
C21_FactoryOnEmptySlot ==
    [][ \A x \in Pending :
            (x.pc = "pause" /\ CreateAndInitialize(x)) => client = NoHandle ]_vars

\* C22: at most one attempt is in progress: at most one invocation is between
\* the increment of the counter and the end of its attempt (the return after
\* initialize, or the catch branch).
C22_OneAttemptInProgress ==
    LET inProgress == { x \in Pending : x.pc \in {"awaitDestroy", "pause", "awaitInit"} }
    IN  \A x, y \in inProgress : x = y /\ tasks[x] = 1

\* C23: an event of a stale handle (one that was replaced in the slot, or the
\* handle of the only attempt so far once that attempt has been declared
\* failed) changes nothing of the lifecycle: its 'ready' neither sets the
\* readiness flag nor resets the counter, its 'disconnected' neither clears
\* the flag nor starts a reconnect.
C23_StaleEventsIgnored ==
    [][ \A e \in Emitters :
            LET stale == \/ ~e.slot
                         \/ /\ e.h.phase = "new"
                            /\ hist.attempts = 1
                            /\ hist.fails = 1
            IN  /\ (stale /\ e.h.phase = "new" /\ OnReady(e))
                       => /\ isReady' = isReady
                          /\ initializationAttempt' = initializationAttempt
                /\ (stale /\ OnDisconnected(e))
                       => /\ isReady' = isReady
                          /\ tasks' = tasks ]_vars

\* C24: when a 'disconnected' handler waits in its reconnect delay and no
\* shutdown is triggered, a new attempt eventually starts and creates a new
\* handle.
C24_ReconnectStarts ==
    ((\E x \in Pending : x.pc = "reconnectDelay") /\ ~isShuttingDown)
        ~> (isShuttingDown \/ client = Handle("new", 0))

\* C25: when destroy of the previous handle settles with an error, the slot
\* is cleared and the invocation goes on to the pause before createClient;
\* no failure is counted, no backoff starts, the counter and the shutdown
\* flag keep their values and the process does not exit.
C25_DestroyErrorNotCounted ==
    [][ \A x \in Pending :
            (x.pc = "awaitDestroy" /\ DestroySettles(x, FALSE))
                => /\ client' = NoHandle
                   /\ [x EXCEPT !.pc = "pause"] \in Pending'
                   /\ hist'.fails = hist.fails
                   /\ last'.a # "Backoff"
                   /\ initializationAttempt' = initializationAttempt
                   /\ isShuttingDown' = isShuttingDown
                   /\ ~exited' ]_vars
C25_Witness ==
    /\ last = DestroyWarning
    /\ client = NoHandle
    /\ initializationAttempt = MaxRetries
    /\ \E x \in Pending : x.pc = "pause" /\ x.fresh

\* C26: the step that ends the initialize race fails the attempt in the same
\* way whether the 180 s timer or a rejection of initialize ended it: a
\* backoff sleep starts if the counter is below MaxRetries and no shutdown has
\* started, else the process exits with status 1.
C26_TimeoutIsFailure ==
    [][ \A x \in Pending, reason \in {"reject", "timeout"} :
            (x.pc = "awaitInit" /\ InitializeFails(x, reason))
                => /\ last'.err = reason
                   /\ IF initializationAttempt < MaxRetries /\ ~isShuttingDown
                      THEN /\ ~exited'
                           /\ last'.a = "Backoff"
                           /\ tasks' = Replace(x, Task("backoff", FALSE))
                      ELSE exited' /\ exitCode' = 1 ]_vars
C26_Witness ==
    /\ last.err = "timeout"
    /\ exited
    /\ exitCode = 1
    /\ ~isShuttingDown
    /\ initializationAttempt = MaxRetries

\* C30: detectZodiacSigns returns the symbols of exactly the signs that have
\* a match in the text, none of them twice, in the order of the positions of
\* their first matches; the empty sequence for a text without a match.
C30_DetectedInTextOrder ==
    ret # NoValue
        => LET symbols == ret[1]
               matching == { k \in 1..Len(zodiacSigns) :
                                 \E i \in 1..Len(arg) : MatchesAt(zodiacSigns[k], arg, i) }
               signOf(symbol) == CHOOSE k \in 1..Len(zodiacSigns) : zodiacSigns[k].emoji = symbol
               first(k) == CHOOSE i \in 1..Len(arg) :
                               /\ MatchesAt(zodiacSigns[k], arg, i)
                               /\ \A j \in 1..(i - 1) : ~MatchesAt(zodiacSigns[k], arg, j)
           IN  /\ { symbols[n] : n \in 1..Len(symbols) } = { zodiacSigns[k].emoji : k \in matching }
               /\ \A m, n \in 1..Len(symbols) :
                      m < n => /\ symbols[m] # symbols[n]
                               /\ first(signOf(symbols[m])) < first(signOf(symbols[n]))
               /\ matching = {} => symbols = <<>>
C30_Witness ==
    /\ arg = <<"l", "e", "o", " ", "A", "r", "i", "e", "s", " ", "L", "E", "O">>
    /\ ret = << <<"Leo", "Aries">> >>

\* C27: the handler replies at most once to a message: not at all if the
\* text is empty or white space only; with 'pong' if the text is exactly
\* '!ping'; else with the detected symbols, joined by blanks, if the detector
\* finds any, and not at all if it finds none.
C27_OneReplyByPriority ==
    ret # NoValue
        => LET body == arg.body
               replies == ret[1].replies
               symbols == detectZodiacSigns(body)
           IN  /\ Len(replies) <= 1
               /\ IF \A i \in 1..Len(body) : body[i] = " "
                  THEN replies = <<>>
                  ELSE IF body = <<"!", "p", "i", "n", "g">>
                       THEN replies = << <<"p", "o", "n", "g">> >>
                       ELSE IF symbols # <<>>
                            THEN /\ replies # <<>>
                                 /\ Len(replies[1]) = 2 * Len(symbols) - 1
                                 /\ \A k \in 1..Len(symbols) : replies[1][2 * k - 1] = symbols[k]
                                 /\ \A k \in 1..(Len(symbols) - 1) : replies[1][2 * k] = " "
                            ELSE replies = <<>>
C27_Witness ==
    /\ ret # NoValue
    /\ arg.body = <<"!", "p", "i", "n", "g", " ", "l", "e", "o", " ">>
    /\ ret[1].replies = << <<"Leo">> >>

\* C28: when getContact rejects, logMessage does not throw and logs what it
\* logs for a contact that resolves, with the sender's identifier as the
\* name; the replies are those of a message whose contact resolves.
C28_ContactFailureDegrades ==
    (ret # NoValue /\ arg.contact = "throws")
        => LET resolved == MessageHandler([arg EXCEPT !.contact = "pushname"])
               log == ret[1].log
           IN  /\ ~log.threw
               /\ Len(log.lines) = Len(resolved.log.lines)
               /\ \A k \in 1..Len(log.lines) :
                      /\ log.lines[k].name = Sender
                      /\ log.lines[k].content = resolved.log.lines[k].content
               /\ ret[1].replies = resolved.replies
C28_Witness ==
    /\ ret # NoValue
    /\ arg.contact = "throws"
    /\ arg.body = <<"l", "e", "o", " ">>
    /\ ret[1].log.lines # <<>>
    /\ ret[1].replies = << <<"Leo">> >>

\* C29: when msg.reply fails, the slot, the readiness flag, the counter and
\* the shutdown flag keep their values, no shutdown starts and the process
\* does not exit.
C29_ReplyFailureNoEffect ==
    [][ (inbox = "replying" /\ ReplySettles(FALSE))
            => /\ UNCHANGED <<client, orphans, isReady, initializationAttempt,
                              isShuttingDown, sd, tasks>>
               /\ ~exited' ]_vars
C29_Witness ==
    /\ last = UnhandledRejection
    /\ ~exited
    /\ isReady
    /\ client.phase = "ready"

\* C31: when the shutdown sequence exits the process, destroy has been invoked
\* on every handle that was created; no attempt in flight creates a handle
\* after the flag was set and leaves it live at the exit.
C31_NoLiveHandleAtShutdownExit ==
    (exited /\ sd.pc = "done") => LiveCount = 0

\* C32: destroy is invoked at most once on any session handle, however the
\* retry attempts, the retries after 'disconnected' and the shutdown sequence
\* interleave.
C32_DestroyAtMostOnce == client.destroyCalls <= 1

\* C33: GET /health and the send endpoints agree: in every reachable state
\* where /health reports 'connected', a well-formed POST /send handled in that
\* state is not answered 503, that is, the readiness flag being true implies
\* that the handle slot is not empty.
C33_HealthAgreesWithSend ==
    Health(isReady) = "connected"
        => PreSendStatus("/send", TRUE, TRUE, TRUE, isReady, client) # 503

====
